---- MODULE Spec2Model ----
(***************************************************************************)
(* GithubService (github.service.ts) and GithubController: the polling     *)
(* cycle that finds pull requests the configured user approved and posts a *)
(* meme comment on them.  The REST API is the environment: every response  *)
(* is an input drawn from a small set, except the issue comments, which    *)
(* are server state the POST changes.  One action is one run of the code   *)
(* between two awaits on the network.                                      *)
(***************************************************************************)
EXTENDS Integers, Sequences, FiniteSets, TLC

\* ------------------------------------------------------------------ bounds
\* Polling cycles of one process run: the startup cycle and the cron cycles.
MaxCycles == 2
\* Seconds the clock may advance during the run.
MaxTicks == 2
\* Longest list of search hits, reviews or events a response carries.
MaxItems == 2

\* ------------------------------------------------------- program constants
\* subMinutes(new Date(), 5)
WindowMinutes == 5

ApiRepos == "https://api.github.com/repos/"

memeUrls ==
  << "https://media.makeameme.org/created/pr-approved-seeing.jpg",
     "https://www.memecreator.org/static/images/memes/5595060.jpg",
     "https://media.makeameme.org/created/you-get-approved-a0fd4c37ee.jpg",
     "http://www.quickmeme.com/img/17/17960076ed8eb9b005747677c781d58cfe237f192c0f0e4e243cd73bd789b3fc.jpg",
     "https://i.imgflip.com/8qwq96.jpg",
     "https://www.meme-arsenal.com/memes/cba08ac9b63f603c1f30495a45967708.jpg",
     "https://media.makeameme.org/created/i-got-you-b6b9066329.jpg",
     "https://i.pinimg.com/564x/e0/b9/32/e0b932da2b84a6bc012af9b9a5774087.jpg" >>

\* process.env.GITHUB_NAME
username == "me"

\* An environment variable that is not set.
Undefined == "<undefined>"

\* The JSON null where an object is expected: it has no property to read.
Null == [null |-> TRUE]

\* ---------------------------------------------------------------- strings
\* String.prototype.indexOf, 1-based; 0 when sub does not occur.
IndexOf(s, sub) ==
  IF Len(sub) = 0 THEN 1
  ELSE LET hits == { i \in 1..(Len(s) - Len(sub) + 1) :
                       SubSeq(s, i, i + Len(sub) - 1) = sub }
       IN IF hits = {} THEN 0
          ELSE CHOOSE i \in hits : \A k \in hits : i <= k

\* String.prototype.includes
Includes(s, sub) == IndexOf(s, sub) # 0

\* String.prototype.startsWith
StartsWith(s, prefix) ==
  \/ Len(prefix) = 0
  \/ /\ Len(prefix) <= Len(s)
     /\ SubSeq(s, 1, Len(prefix)) = prefix

Prefix(s, n) == IF n <= 0 THEN "" ELSE SubSeq(s, 1, n)
Suffix(s, from) == IF from > Len(s) THEN "" ELSE SubSeq(s, from, Len(s))

\* String.prototype.replace with a string pattern: the first occurrence only.
Replace(s, pat, by) ==
  LET i == IndexOf(s, pat)
  IN IF i = 0 THEN s
     ELSE Prefix(s, i - 1) \o by \o Suffix(s, i + Len(pat))

\* String.prototype.split with a one-character separator.
RECURSIVE Split(_, _)
Split(s, sep) ==
  LET i == IndexOf(s, sep)
  IN IF i = 0 THEN << s >>
     ELSE << Prefix(s, i - 1) >> \o Split(Suffix(s, i + Len(sep)), sep)

\* process.env.GITHUB_ORGS?.split(',') || []
OrgsOf(env) == IF env = Undefined THEN << >> ELSE Split(env, ",")

Range(q) == { q[i] : i \in 1..Len(q) }

\* Array.prototype.flat on a list of lists.
RECURSIVE FlatReversed(_)
FlatReversed(lists) ==
  IF lists = << >> THEN << >> ELSE FlatReversed(Tail(lists)) \o Head(lists)
RECURSIVE Flat(_)
Flat(lists) ==
  IF lists = << >> THEN << >> ELSE Head(lists) \o Flat(Tail(lists))

\* Lists over S of length at most n.
SeqsUpTo(S, n) == UNION { [1..k -> S] : k \in 0..n }

\* ------------------------------------------------------------------- time
\* Instants are whole seconds; a Date and the ISO string parseISO reads are
\* both the instant they denote.
subMinutes(date, minutes) == date - minutes * 60
isAfterOrEqual(date, dateToCompare) == date >= dateToCompare
isAfter(date, dateToCompare) == date > dateToCompare

Window == WindowMinutes * 60
StartTime == Window + 1
\* Submission instants of the reviews and events the API may return: 4:59
\* and 1:00 before the process starts.
Old == StartTime - (Window - 1)
Recent == StartTime - 60

\* ------------------------------------------------- the API's possible data
\* GITHUB_ORGS as the process may find it: not set, or a comma-separated list.
OrgEnvs == { Undefined, "a,ab" }

\* Repositories of the host, owner/name; the open pull request of each.
RepoNames == { "ab/x", "ab/y", "abc/z" }
PullNumber(repo) ==
  CASE repo = "ab/x" -> 42
    [] repo = "ab/y" -> 7
    [] OTHER -> 9

RepositoryUrl(repo) == ApiRepos \o repo
HtmlUrl(repo, number) ==
  "https://github.com/" \o repo \o "/pull/" \o ToString(number)

\* PullRequest (interface): an entry of the search hits or of a pulls listing.
PullRequest(html_url, repository_url, number) ==
  [html_url |-> html_url, repository_url |-> repository_url, number |-> number]

\* Search hits: of a repository, or with no repository reference.
SearchItems ==
  { PullRequest(HtmlUrl(r, PullNumber(r)), RepositoryUrl(r), PullNumber(r)) :
      r \in RepoNames }
  \cup { PullRequest("https://github.com/ab/x/pull/1", "", 1) }

\* The open pull requests a listing of repo may hold: the complete entry,
\* and the entry with either reference field missing.
PullsOf(repo) ==
  LET n == PullNumber(repo)
  IN { << >>,
       << PullRequest(HtmlUrl(repo, n), RepositoryUrl(repo), n) >>,
       << PullRequest("", RepositoryUrl(repo), n) >>,
       << PullRequest(HtmlUrl(repo, n), "", n) >> }

\* Review (interface)
Review(state, login, submitted_at) ==
  [state |-> state, user |-> [login |-> login], submitted_at |-> submitted_at]

Reviews ==
  { Review("APPROVED", username, Old),
    Review("APPROVED", username, Recent),
    Review("APPROVED", "other", Recent),
    Review("CHANGES_REQUESTED", username, Recent) }

\* Event (interface)
Event(event, state, login, created_at) ==
  [event |-> event, state |-> state, actor |-> [login |-> login],
   created_at |-> created_at]

Events ==
  { Event("reviewed", "APPROVED", username, Old),
    Event("labeled", "APPROVED", username, Recent),
    Event("reviewed", "APPROVED", "other", Recent),
    Event("reviewed", "COMMENTED", username, Recent) }

\* Comment (interface)
Comment(body) == [body |-> body]

\* Comments a pull request may carry before the process starts: none, one
\* without an image, one a person wrote around a catalog image.
InitialComments ==
  { << >>,
    << Comment("LGTM") >>,
    << Comment("nice " \o memeUrls[3] \o " !") >> }

\* Math.random() in thousandths: 0 <= r < 1.
Randoms == { 0, 999 }

\* HTTP status of a response.
OK == "200 OK"
NOT_FOUND == "404 Not Found"
SERVER_ERROR == "500 Internal Server Error"

\* ------------------------------------------------- the service's functions
\* trackApprovedRepositories, lines 63-71: a Set keeps insertion order.
SetAdd(set, x) == IF x \in Range(set) THEN set ELSE Append(set, x)

RECURSIVE trackApprovedRepositories(_, _)
trackApprovedRepositories(set, items) ==
  IF items = << >> THEN set
  ELSE LET pr == Head(items)
           added == IF pr.repository_url # ""
                    THEN SetAdd(set, Replace(pr.repository_url, ApiRepos, ""))
                    ELSE set
       IN trackApprovedRepositories(added, Tail(items))

\* checkApprovedPRs, lines 106-108: the organization filter.
OrgPrefixNoSlash(org) == org
OrgPrefix(org) == org \o "/"
InOrgs(repoFullName, orgList) ==
  \E k \in 1..Len(orgList) : StartsWith(repoFullName, OrgPrefix(orgList[k]))
FilterByOrgs(set, orgList) ==
  LET Keep(repoFullName) == InOrgs(repoFullName, orgList)
  IN SelectSeq(set, Keep)

\* getPullRequestsForRepos, line 80
PullsUrl(repoFullName) ==
  ApiRepos \o repoFullName \o "/pulls?state=open&sort=created&direction=desc"
\* getPullRequestReviews, line 210
ReviewsUrl(pullRequestUrl) == pullRequestUrl \o "/reviews"
\* getPullRequestEvents, line 237
EventsUrl(repoFullName, pullNumber) ==
  ApiRepos \o repoFullName \o "/issues/" \o ToString(pullNumber) \o "/events"
\* getPullRequestComments, line 267, and addMemeComment, line 301
IssueCommentUrl(repoFullName, pullNumber) ==
  ApiRepos \o repoFullName \o "/issues/" \o ToString(pullNumber) \o "/comments"
\* trackApprovedRepositories, line 53
SearchUrl ==
  "https://api.github.com/search/issues?q=reviewed-by:" \o username
    \o "+type:pr+state:closed+sort:updated&order=desc&per_page=5"

\* getPullRequestEvents, lines 250-256
MapEvent(event) ==
  [state |-> event.state, user |-> event.actor, submitted_at |-> event.created_at]
IsAnyEvent(event) == TRUE
IsReviewed(event) == event.event = "reviewed"
getPullRequestEvents(events) ==
  LET reviewed == SelectSeq(events, IsReviewed)
  IN [i \in 1..Len(reviewed) |-> MapEvent(reviewed[i])]

\* checkApprovedPRs, lines 153-158: the predicate of reviews.find
IsRecentApprovalByAnyone(review, fiveMinAgo) ==
  /\ review.state = "APPROVED"
  /\ isAfter(review.submitted_at, fiveMinAgo)
IsRecentApproval(review, fiveMinAgo) ==
  /\ review.state = "APPROVED"
  /\ review.user.login = username
  /\ isAfter(review.submitted_at, fiveMinAgo)
\* Line 156: review.user.login of a review without user is a TypeError; &&
\* reads it only when the state is APPROVED.
Throws(review) == review.state = "APPROVED" /\ review.user = Null
\* reviews.find from the left: the index of the first record on which the
\* predicate holds or throws, 0 when there is none.
FirstStop(reviews, fiveMinAgo) ==
  LET stops == { i \in 1..Len(reviews) :
                   Throws(reviews[i]) \/ IsRecentApproval(reviews[i], fiveMinAgo) }
  IN IF stops = {} THEN 0 ELSE CHOOSE i \in stops : \A k \in stops : i <= k
\* reviews.find throws before it finds a match.
FindThrows(reviews, fiveMinAgo) ==
  LET i == FirstStop(reviews, fiveMinAgo)
  IN i # 0 /\ Throws(reviews[i])
\* reviews.find: the index of the first match, 0 when there is none.
FindApproved(reviews, fiveMinAgo) ==
  LET i == FirstStop(reviews, fiveMinAgo)
  IN IF i # 0 /\ ~Throws(reviews[i]) THEN i ELSE 0

\* checkApprovedPRs, lines 179-181
firstMemeAlreadyPosted(comments) ==
  \E k \in 1..Len(comments) : Includes(comments[k].body, memeUrls[1])
memeAlreadyPosted(comments) ==
  \E m \in 1..Len(memeUrls) :
    \E k \in 1..Len(comments) : Includes(comments[k].body, memeUrls[m])

\* getRandomMeme, lines 289-294: r is Math.random() in thousandths.
getRandomMeme(r) == memeUrls[((r * Len(memeUrls)) \div 1000) + 1]

\* addMemeComment, line 308
BareUrlBody(memeUrl) == memeUrl
MemeBody(memeUrl) == "![Meme](" \o memeUrl \o ")"

\* ------------------------------------------------------------------ state
VARIABLES
  now,             \* the clock, in seconds
  orgs,            \* GithubService.orgs
  approvedRepos,   \* GithubService.approvedRepos, in insertion order
  comments,        \* the host's issue comments, by comments URL
  pc,              \* per cycle: where checkApprovedPRs stands
  allRepos,        \* per cycle: the local allRepos
  pulls,           \* per cycle: the promises of getPullRequestsForRepos
  fiveMinutesAgo,  \* per cycle: the local fiveMinutesAgo
  branch,          \* per cycle: the callbacks of repoPRs.map, one per PR
  requests,        \* every request sent so far
  posts,           \* every answered POST so far, each with the cycles yet to begin
  response         \* the response the last step handled

vars ==
  << now, orgs, approvedRepos, comments, pc, allRepos, pulls, fiveMinutesAgo,
     branch, requests, posts, response >>

Cycles == 1..MaxCycles

CommentUrls == { IssueCommentUrl(r, PullNumber(r)) : r \in RepoNames }

Get(c, url) == [cycle |-> c, method |-> "GET", url |-> url, body |-> ""]
Post(c, url, body) == [cycle |-> c, method |-> "POST", url |-> url, body |-> body]

Response(c, j, kind, status, data) ==
  [cycle |-> c, branch |-> j, kind |-> kind, status |-> status, data |-> data]
NoResponse == Response(0, 0, "none", "", << >>)

\* What the API may answer: a list, or a failure.
Answers(lists, failures) ==
  { [status |-> OK, data |-> d] : d \in lists }
    \cup { [status |-> f, data |-> << >>] : f \in failures }

\* Everything the API may answer in the startup cycle.
Api ==
  [search |-> Answers(SeqsUpTo(SearchItems, MaxItems), { SERVER_ERROR }),
   pulls |-> [r \in RepoNames |-> Answers(PullsOf(r), { SERVER_ERROR })],
   reviews |-> Answers(SeqsUpTo(Reviews, MaxItems), { NOT_FOUND, SERVER_ERROR }),
   events |-> Answers(SeqsUpTo(Events, MaxItems), { SERVER_ERROR }),
   status |-> { OK, SERVER_ERROR },
   randoms |-> Randoms]

\* The answers of a host with one pull request to celebrate, over a run of
\* several cycles.
ApiOverCycles ==
  LET hit(r) == PullRequest(HtmlUrl(r, PullNumber(r)), RepositoryUrl(r), PullNumber(r))
  IN [search |-> Answers({ << >>, << hit("ab/x") >>, << hit("ab/y") >>, << hit("abc/z") >> },
                         { SERVER_ERROR }),
      pulls |-> [r \in RepoNames |-> Answers({ << >>, << hit(r) >> }, { SERVER_ERROR })],
      reviews |-> Answers({ << >>, << Review("APPROVED", username, Recent) >> },
                          { SERVER_ERROR }),
      events |-> Answers({ << >>, << Event("reviewed", "APPROVED", username, Recent) >> },
                         { SERVER_ERROR }),
      status |-> { OK, SERVER_ERROR },
      randoms |-> Randoms]

\* The answers of a host on which deleted accounts left reviews: such a
\* review has no user, such an event no actor.
ApiWithNulls ==
  LET hit(r) == PullRequest(HtmlUrl(r, PullNumber(r)), RepositoryUrl(r), PullNumber(r))
      nobody == [Review("APPROVED", username, Recent) EXCEPT !.user = Null]
      comment == [Review("COMMENTED", username, Recent) EXCEPT !.user = Null]
      noActor == [Event("reviewed", "APPROVED", username, Recent) EXCEPT !.actor = Null]
  IN [search |-> Answers({ << hit("ab/x") >>, << hit("ab/x"), hit("ab/y") >> },
                         { SERVER_ERROR }),
      pulls |-> [r \in RepoNames |->
                   Answers({ << hit(r) >>,
                             << PullRequest("", RepositoryUrl(r), PullNumber(r)) >> },
                           { SERVER_ERROR })],
      reviews |-> Answers(SeqsUpTo({ Review("APPROVED", username, Recent), nobody,
                                     comment }, MaxItems),
                          { NOT_FOUND, SERVER_ERROR }),
      events |-> Answers({ << >>,
                           << Event("reviewed", "APPROVED", username, Recent) >>,
                           << noActor >> },
                         { SERVER_ERROR }),
      status |-> { OK, SERVER_ERROR },
      randoms |-> { 0 }]

RepoFullName(pr) == Replace(pr.repository_url, ApiRepos, "")

\* A callback of repoPRs.map: its PR, where it stands, its locals.
Branch(pr, at, reviews, memeUrl, outcome) ==
  [pr |-> pr, pc |-> at, reviews |-> reviews, memeUrl |-> memeUrl,
   outcome |-> outcome]
Finished(pr, outcome) == Branch(pr, "done", << >>, "", outcome)

\* checkApprovedPRs, lines 116-127: the guard of a callback, up to its first await.
HasHtmlUrl(pr) == pr.html_url # ""
IsComplete(pr) == pr.html_url # "" /\ pr.repository_url # ""
NewBranch(pr) ==
  IF IsComplete(pr) THEN Branch(pr, "reviews", << >>, "", "")
  ELSE Finished(pr, "skipped")

\* Promise.all of the callbacks, line 114: resolved once every one returned.
AllSettled(branches) == \A j \in 1..Len(branches) : branches[j].pc = "done"
PcAfterAny(branches) ==
  IF branches = << >> \/ \E j \in 1..Len(branches) : branches[j].pc = "done"
  THEN "done" ELSE "prs"
PcAfter(branches) == IF AllSettled(branches) THEN "done" ELSE "prs"

\* The state after construction, given GITHUB_ORGS and the comments the pull
\* request of ab/x carries.
Constructed(env, existing) ==
  /\ now = StartTime
  /\ orgs = OrgsOf(env)
  /\ approvedRepos = << >>
  /\ comments = [u \in CommentUrls |->
                   IF u = IssueCommentUrl("ab/x", PullNumber("ab/x"))
                   THEN existing ELSE << >>]
  /\ pc = [c \in Cycles |-> "idle"]
  /\ allRepos = [c \in Cycles |-> << >>]
  /\ pulls = [c \in Cycles |-> << >>]
  /\ fiveMinutesAgo = [c \in Cycles |-> 0]
  /\ branch = [c \in Cycles |-> << >>]
  /\ requests = {}
  /\ posts = {}
  /\ response = NoResponse

Init == \E env \in OrgEnvs, existing \in InitialComments : Constructed(env, existing)

InitOverCycles == Constructed("a,ab", << >>)

InitWithNulls == Constructed("a,ab", << >>)

\* ---------------------------------------------------------------- actions
\* An error no handler catches, lines 56 and 96: checkApprovedPRs rejects, and
\* with it the controller's entry point that awaits it.
Swallowed(c) == [pc EXCEPT ![c] = "done"]
Rejected(c) == [pc EXCEPT ![c] = "rejected"]

\* checkApprovedPRs up to the await of the search request, lines 99-104, 52-61.
Begin(c) ==
  /\ pc[c] = "idle"
  /\ pc' = [pc EXCEPT ![c] = "track"]
  /\ requests' = requests \cup { Get(c, SearchUrl) }
  /\ response' = NoResponse
  /\ UNCHANGED << now, orgs, approvedRepos, comments, allRepos, pulls,
                  fiveMinutesAgo, branch, posts >>

\* GithubController.onModuleInit: the startup cycle.
OnModuleInit == Begin(1)

\* GithubController.checkApprovedPRs, @Cron(EVERY_5_MINUTES): a later cycle,
\* whether or not the cycles before it have returned.
Cron(c) ==
  /\ c > 1
  /\ pc[c - 1] # "idle"
  /\ Begin(c)

\* The per-PR stage, lines 112-198, from the listed PRs to the first awaits.
StartBranches(c, repoPRs) ==
  LET started == [j \in 1..Len(repoPRs) |-> NewBranch(repoPRs[j])]
  IN /\ fiveMinutesAgo' = [fiveMinutesAgo EXCEPT ![c] = subMinutes(now, WindowMinutes)]
     /\ branch' = [branch EXCEPT ![c] = started]
     /\ pc' = [pc EXCEPT ![c] = PcAfter(started)]
     /\ requests' = requests \cup
          { Get(c, ReviewsUrl(repoPRs[j].html_url)) :
              j \in { k \in 1..Len(repoPRs) : IsComplete(repoPRs[k]) } }

\* The search answers: lines 63-76 and 106-110, up to the awaits of the
\* pulls requests; a failure rejects checkApprovedPRs.
SearchResponds(c, api) ==
  /\ pc[c] = "track"
  /\ \E r \in api.search :
       /\ response' = Response(c, 0, "search", r.status, r.data)
       /\ IF r.status # OK
          THEN /\ pc' = Rejected(c)
               /\ UNCHANGED << approvedRepos, allRepos, pulls, fiveMinutesAgo,
                               branch, requests >>
          ELSE LET set == trackApprovedRepositories(approvedRepos, r.data)
                   repos == FilterByOrgs(set, orgs)
               IN /\ approvedRepos' = set
                  /\ allRepos' = [allRepos EXCEPT ![c] = repos]
                  /\ pulls' = [pulls EXCEPT ![c] =
                       [i \in 1..Len(repos) |-> [done |-> FALSE, data |-> << >>]]]
                  /\ IF repos = << >>
                     THEN StartBranches(c, << >>)
                     ELSE /\ pc' = [pc EXCEPT ![c] = "fetch"]
                          /\ requests' = requests \cup
                               { Get(c, PullsUrl(repos[i])) : i \in 1..Len(repos) }
                          /\ UNCHANGED << fiveMinutesAgo, branch >>
  /\ UNCHANGED << now, orgs, comments, posts >>

\* One pulls listing answers: lines 83-96; the last one resolves Promise.all
\* and runs lines 112-127; a failure rejects it and checkApprovedPRs.
PullsResponds(c, i, api) ==
  /\ pc[c] = "fetch"
  /\ i \in 1..Len(pulls[c])
  /\ ~pulls[c][i].done
  /\ \E r \in api.pulls[allRepos[c][i]] :
       /\ response' = Response(c, i, "pulls", r.status, r.data)
       /\ IF r.status # OK
          THEN /\ pc' = Rejected(c)
               /\ UNCHANGED << pulls, fiveMinutesAgo, branch, requests >>
          ELSE LET got == [pulls[c] EXCEPT ![i] = [done |-> TRUE, data |-> r.data]]
               IN /\ pulls' = [pulls EXCEPT ![c] = got]
                  /\ IF \A k \in 1..Len(got) : got[k].done
                     THEN StartBranches(c, Flat([k \in 1..Len(got) |-> got[k].data]))
                     ELSE UNCHANGED << pc, fiveMinutesAgo, branch, requests >>
  /\ UNCHANGED << now, orgs, approvedRepos, comments, allRepos, posts >>

\* A callback returns or moves to its next await.
Settle(c, j, b) ==
  LET branches == [branch[c] EXCEPT ![j] = b]
  IN /\ branch' = [branch EXCEPT ![c] = branches]
     /\ pc' = [pc EXCEPT ![c] = PcAfter(branches)]

AtBranch(c, j, at) ==
  /\ pc[c] = "prs"
  /\ j \in 1..Len(branch[c])
  /\ branch[c][j].pc = at

\* An error thrown inside the try of callback j, lines 126-194: the catch
\* logs it and the callback returns.
UncaughtInCallback(c, j, pr) ==
  /\ branch' = [branch EXCEPT ![c][j] = Finished(pr, "error")]
  /\ pc' = Rejected(c)
CaughtInCallback(c, j, pr) == Settle(c, j, Finished(pr, "error"))

\* Lines 153-177: the approval test on the records obtained, then the
\* comments request.
Decide(c, j, reviews) ==
  LET pr == branch[c][j].pr
  IN IF FindThrows(reviews, fiveMinutesAgo[c])
     THEN /\ CaughtInCallback(c, j, pr)
          /\ UNCHANGED requests
     ELSE IF FindApproved(reviews, fiveMinutesAgo[c]) = 0
     THEN /\ Settle(c, j, Finished(pr, "not approved"))
          /\ UNCHANGED requests
     ELSE /\ Settle(c, j, Branch(pr, "comments", reviews, "", ""))
          /\ requests' = requests \cup
               { Get(c, IssueCommentUrl(RepoFullName(pr), pr.number)) }

\* getPullRequestReviews, lines 201-231: the list it resolves with, given the
\* URL and the answer to its request; no URL, a 404 and any other failure
\* all give the empty list.
getPullRequestReviews(pullRequestUrl, answer) ==
  IF pullRequestUrl = "" THEN << >>
  ELSE IF answer.status = OK THEN answer.data
  ELSE IF answer.status = NOT_FOUND THEN << >>
  ELSE << >>

\* Line 129: the events are asked for when the review list is empty.
NeverNeedsEvents(rev) == FALSE
NeedsEvents(rev) == Len(rev) = 0

\* The reviews request answers: getPullRequestReviews, lines 208-230, makes
\* any failure the empty list; lines 128-138 then ask for the events.
ReviewsResponds(c, j, api) ==
  /\ AtBranch(c, j, "reviews")
  /\ \E r \in api.reviews :
       LET pr == branch[c][j].pr
           rev == getPullRequestReviews(pr.html_url, r)
       IN /\ response' = Response(c, j, "reviews", r.status, r.data)
          /\ IF NeedsEvents(rev)
             THEN /\ Settle(c, j, Branch(pr, "events", << >>, "", ""))
                  /\ requests' = requests \cup
                       { Get(c, EventsUrl(RepoFullName(pr), pr.number)) }
             ELSE Decide(c, j, rev)
  /\ UNCHANGED << now, orgs, approvedRepos, comments, allRepos, pulls,
                  fiveMinutesAgo, posts >>

\* The events request answers: getPullRequestEvents, lines 240-260.
EventsResponds(c, j, api) ==
  /\ AtBranch(c, j, "events")
  /\ \E r \in api.events :
       /\ response' = Response(c, j, "events", r.status, r.data)
       /\ Decide(c, j, IF r.status = OK THEN getPullRequestEvents(r.data) ELSE << >>)
  /\ UNCHANGED << now, orgs, approvedRepos, comments, allRepos, pulls,
                  fiveMinutesAgo, posts >>

\* The comments request answers: getPullRequestComments, lines 270-286, makes
\* a failure the empty list; lines 179-189 and 301-317 up to the POST.
CommentsResponds(c, j, api) ==
  /\ AtBranch(c, j, "comments")
  /\ \E status \in api.status, r \in api.randoms :
       LET pr == branch[c][j].pr
           url == IssueCommentUrl(RepoFullName(pr), pr.number)
           data == IF status = OK THEN comments[url] ELSE << >>
           memeUrl == getRandomMeme(r)
       IN /\ response' = Response(c, j, "comments", status, data)
          /\ IF memeAlreadyPosted(data)
             THEN /\ Settle(c, j, Finished(pr, "already posted"))
                  /\ UNCHANGED requests
             ELSE /\ Settle(c, j, Branch(pr, "post", branch[c][j].reviews, memeUrl, ""))
                  /\ requests' = requests \cup { Post(c, url, MemeBody(memeUrl)) }
  /\ UNCHANGED << now, orgs, approvedRepos, comments, allRepos, pulls,
                  fiveMinutesAgo, posts >>

\* addMemeComment, lines 304-322: how the callback ends once the POST answered;
\* a failure is logged there and the callback returns normally.
PostOutcomeThrown(status) == IF status = OK THEN "posted" ELSE "error"
PostOutcome(status) == IF status = OK THEN "posted" ELSE "post failed"

\* The POST answers: addMemeComment, lines 304-322, swallows a failure.
PostResponds(c, j, api) ==
  /\ AtBranch(c, j, "post")
  /\ \E status \in api.status :
       LET pr == branch[c][j].pr
           url == IssueCommentUrl(RepoFullName(pr), pr.number)
           body == MemeBody(branch[c][j].memeUrl)
       IN /\ response' = Response(c, j, "post", status, << >>)
          /\ posts' = posts \cup
               { [cycle |-> c, branch |-> j, url |-> url, body |-> body,
                  ok |-> (status = OK),
                  before |-> { k \in Cycles : pc[k] = "idle" }] }
          /\ comments' = IF status = OK
                         THEN [comments EXCEPT ![url] = Append(@, Comment(body))]
                         ELSE comments
          /\ Settle(c, j, Finished(pr, PostOutcome(status)))
  /\ UNCHANGED << now, orgs, approvedRepos, allRepos, pulls, fiveMinutesAgo,
                  requests >>

\* A second passes.
Tick ==
  /\ now < StartTime + MaxTicks
  /\ now' = now + 1
  /\ response' = NoResponse
  /\ UNCHANGED << orgs, approvedRepos, comments, pc, allRepos, pulls,
                  fiveMinutesAgo, branch, requests, posts >>

Slots == 1..Cardinality(RepoNames)

\* The startup cycle alone: the process until the scheduler first fires.
Next ==
  \/ OnModuleInit
  \/ SearchResponds(1, Api)
  \/ \E i \in Slots : PullsResponds(1, i, Api)
  \/ \E j \in Slots : ReviewsResponds(1, j, Api)
  \/ \E j \in Slots : EventsResponds(1, j, Api)
  \/ \E j \in Slots : CommentsResponds(1, j, Api)
  \/ \E j \in Slots : PostResponds(1, j, Api)
  \/ Tick

Spec == Init /\ [][Next]_vars

\* The startup cycle and the cron cycles, which nothing serialises, all within
\* one second of the clock.
NextOverCycles ==
  \/ OnModuleInit
  \/ \E c \in Cycles : Cron(c)
  \/ \E c \in Cycles : SearchResponds(c, ApiOverCycles)
  \/ \E c \in Cycles : \E i \in Slots : PullsResponds(c, i, ApiOverCycles)
  \/ \E c \in Cycles : \E j \in Slots : ReviewsResponds(c, j, ApiOverCycles)
  \/ \E c \in Cycles : \E j \in Slots : EventsResponds(c, j, ApiOverCycles)
  \/ \E c \in Cycles : \E j \in Slots : CommentsResponds(c, j, ApiOverCycles)
  \/ \E c \in Cycles : \E j \in Slots : PostResponds(c, j, ApiOverCycles)

CyclesSpec == InitOverCycles /\ [][NextOverCycles]_vars

\* The startup cycle against the host with the deleted accounts.
NextWithNulls ==
  \/ OnModuleInit
  \/ SearchResponds(1, ApiWithNulls)
  \/ \E i \in Slots : PullsResponds(1, i, ApiWithNulls)
  \/ \E j \in Slots : ReviewsResponds(1, j, ApiWithNulls)
  \/ \E j \in Slots : EventsResponds(1, j, ApiWithNulls)
  \/ \E j \in Slots : CommentsResponds(1, j, ApiWithNulls)
  \/ \E j \in Slots : PostResponds(1, j, ApiWithNulls)

NullsSpec == InitWithNulls /\ [][NextWithNulls]_vars

\* A pending request is answered: one of the awaits of the cycle resumes.
Responds ==
  \/ SearchResponds(1, ApiWithNulls)
  \/ \E i \in Slots : PullsResponds(1, i, ApiWithNulls)
  \/ \E j \in Slots : ReviewsResponds(1, j, ApiWithNulls)
  \/ \E j \in Slots : EventsResponds(1, j, ApiWithNulls)
  \/ \E j \in Slots : CommentsResponds(1, j, ApiWithNulls)
  \/ \E j \in Slots : PostResponds(1, j, ApiWithNulls)

\* The startup cycle on a host that answers every request, with a success or
\* with an error: no request stays pending for ever.
LiveSpec == NullsSpec /\ WF_vars(Responds)

\* ----------------------------------------------------------------- claims
\* The step just taken handled the answer to callback j's request of this
\* kind in cycle c (j = 0: the search; for the pulls, j is the repository's
\* place in allRepos).
JustHandled(c, j, kind) ==
  response.cycle = c /\ response.branch = j /\ response.kind = kind

Callbacks(c) == 1..Len(branch[c])
CommentsUrlOf(pr) == IssueCommentUrl(RepoFullName(pr), pr.number)
\* The owner segment of owner/name.
OwnerOf(repo) == Prefix(repo, IndexOf(repo, "/") - 1)
\* A comment list in which some body holds a catalog URL.
HasCatalogUrl(list) ==
  \E k \in 1..Len(list) : \E m \in 1..Len(memeUrls) :
    Includes(list[k].body, memeUrls[m])
\* An approval by the configured user submitted after the instant.
ApprovedAfter(review, instant) ==
  /\ review.state = "APPROVED"
  /\ review.user.login = username
  /\ review.submitted_at > instant
OkPosts(url) == { p \in posts : p.url = url /\ p.ok }

\* C1: within one process run no pull request gets a second successful POST,
\* over any sequence of cycles, overlapping ones included.
C1_PostedExactlyOnce ==
  \A url \in CommentUrls : Cardinality(OkPosts(url)) <= 1

\* C2 as stated: when a POST is issued, some review record of the pull request
\* is an approval by the configured user submitted within the 5 minutes before
\* that moment.
C2_ApprovalWithinLastFiveMinutes ==
  \A c \in Cycles : \A j \in Callbacks(c) :
    (JustHandled(c, j, "comments") /\ branch[c][j].pc = "post")
      => \E i \in 1..Len(branch[c][j].reviews) :
           ApprovedAfter(branch[c][j].reviews[i], now - (5 * 60) - 1)

\* C2, amended: a POST is issued only by a callback whose review records
\* (native, or synthesised from events) hold an approval by the configured
\* user submitted strictly after the cycle's fiveMinutesAgo, an instant fixed
\* once per cycle at least 5 minutes before the POST; every POST sent is such
\* a callback's.
C2_PostOnlyOnApprovalInCycleWindow ==
  /\ \A c \in Cycles : \A j \in Callbacks(c) :
       branch[c][j].pc = "post"
         => /\ \E i \in 1..Len(branch[c][j].reviews) :
                 ApprovedAfter(branch[c][j].reviews[i], fiveMinutesAgo[c])
            /\ fiveMinutesAgo[c] <= now - (5 * 60)
            /\ Post(c, CommentsUrlOf(branch[c][j].pr), MemeBody(branch[c][j].memeUrl))
                 \in requests
  /\ \A q \in requests :
       q.method = "POST"
         => \E j \in Callbacks(q.cycle) :
              /\ q.url = CommentsUrlOf(branch[q.cycle][j].pr)
              /\ \/ branch[q.cycle][j].pc = "post"
                 \/ branch[q.cycle][j].outcome \in { "posted", "post failed" }

\* C2 witness: a POST in flight that rests on an approval inside the cycle's
\* window and more than 5 minutes old by now.
C2_Witness ==
  \E c \in Cycles : \E j \in Callbacks(c) :
    /\ branch[c][j].pc = "post"
    /\ \A i \in 1..Len(branch[c][j].reviews) :
         ~ApprovedAfter(branch[c][j].reviews[i], now - (5 * 60) - 1)

\* C3: if a comment on the pull request holds a catalog URL, no comment is
\* posted for it in that cycle, whatever the comments request's outcome.
C3_DuplicateSuppressed ==
  \A c \in Cycles : \A j \in Callbacks(c) :
    (JustHandled(c, j, "comments")
       /\ HasCatalogUrl(comments[CommentsUrlOf(branch[c][j].pr)]))
      => branch[c][j].pc # "post"

\* C4: fiveMinutesAgo is the clock at the start of the per-PR stage minus 5
\* minutes, and a pull request is flagged approved iff one of its review
\* records is an approval by the configured user submitted strictly after it:
\* 4:59 before is flagged, 5:00 and 5:01 are not.
C4_StrictFreshness ==
  \A c \in Cycles :
    /\ (response.cycle = c /\ response.kind \in { "search", "pulls" }
          /\ pc[c] \in { "prs", "done" })
         => fiveMinutesAgo[c] = now - (5 * 60)
    /\ \A j \in Callbacks(c) :
         (JustHandled(c, j, "reviews") /\ response.status = OK
            /\ response.data # << >>)
           => (branch[c][j].pc = "comments"
                 <=> \E i \in 1..Len(response.data) :
                       ApprovedAfter(response.data[i], fiveMinutesAgo[c]))

\* C4 witness: the only review is the user's approval submitted exactly 5:00
\* before the cycle's time, and the pull request is not flagged.
C4_Witness ==
  \E c \in Cycles : \E j \in Callbacks(c) :
    /\ JustHandled(c, j, "reviews")
    /\ response.data = << Review("APPROVED", username, fiveMinutesAgo[c]) >>
    /\ branch[c][j].outcome = "not approved"

\* The native review with an event's state, actor and timestamp.
NativeOf(event) == Review(event.state, event.actor.login, event.created_at)
ReviewedOnly(events) ==
  LET Reviewed(e) == e.event = "reviewed" IN SelectSeq(events, Reviewed)

\* C5: an empty review list makes the callback ask for the events; the
\* decision on an events answer is the one native reviews with the same
\* state, actor and timestamp as its 'reviewed' entries get, the records kept
\* are those reviews, and no other entry contributes.
C5_EventsFallback ==
  \A c \in Cycles : \A j \in Callbacks(c) :
    /\ (JustHandled(c, j, "reviews") /\ response.data = << >>)
         => /\ branch[c][j].pc = "events"
            /\ Get(c, EventsUrl(RepoFullName(branch[c][j].pr), branch[c][j].pr.number))
                 \in requests
    /\ (JustHandled(c, j, "events") /\ response.status = OK)
         => LET reviewed == ReviewedOnly(response.data)
                native == [i \in 1..Len(reviewed) |-> NativeOf(reviewed[i])]
                approved == \E i \in 1..Len(native) :
                              ApprovedAfter(native[i], fiveMinutesAgo[c])
            IN /\ branch[c][j].pc = "comments" <=> approved
               /\ ~approved => branch[c][j].outcome = "not approved"
               /\ approved => branch[c][j].reviews = native

\* C5 witness: the events answer holds an entry that is not a review and a
\* 'reviewed' approval, and the pull request is flagged.
C5_Witness ==
  \E c \in Cycles : \E j \in Callbacks(c) :
    /\ JustHandled(c, j, "events")
    /\ Len(response.data) = 2
    /\ response.data[1].event # "reviewed"
    /\ branch[c][j].pc = "comments"
    /\ Len(branch[c][j].reviews) = 1

\* The repository identifiers of the hits that carry a repository reference.
ReposOfHits(items) ==
  { Replace(items[k].repository_url, ApiRepos, "") :
      k \in { n \in 1..Len(items) : items[n].repository_url # "" } }

\* C6: after trackApprovedRepositories, in any cycle, the set holds exactly
\* the repositories of that cycle's search hits.
C6_NoCrossCycleMemory ==
  \A c \in Cycles :
    (JustHandled(c, 0, "search") /\ response.status = OK)
      => Range(approvedRepos) = ReposOfHits(response.data)

\* C7: a tracked repository is passed to getPullRequestsForRepos, and its
\* pulls are requested, iff its owner is an element of the configured
\* organizations; no request of any kind names a repository whose owner is
\* not.
C7_OrganizationFilter ==
  /\ \A c \in Cycles :
       (JustHandled(c, 0, "search") /\ response.status = OK)
         => \A repo \in Range(approvedRepos) :
              /\ repo \in Range(allRepos[c]) <=> OwnerOf(repo) \in Range(orgs)
              /\ repo \in Range(allRepos[c]) <=> Get(c, PullsUrl(repo)) \in requests
  /\ \A q \in requests : \A repo \in RepoNames :
       OwnerOf(repo) \notin Range(orgs) => ~Includes(q.url, "/" \o repo \o "/")

\* C7 witness: abc/z and ab/x are tracked, ab is configured, abc is not, and
\* only ab/x is passed on.
C7_Witness ==
  \E c \in Cycles :
    /\ JustHandled(c, 0, "search")
    /\ "abc/z" \in Range(approvedRepos)
    /\ allRepos[c] = << "ab/x" >>

\* C8: end to end.  Every complete listed pull request gets its reviews
\* requested; an answer holding the user's approval inside the window gets
\* the comments requested; an empty comment list gets exactly one POST, with
\* body ![Meme](u), u in the catalog; the POST answered, the cycle counts one
\* post for the pull request and the comment is on it.
C8_EndToEnd ==
  \A c \in Cycles : \A j \in Callbacks(c) :
    LET b == branch[c][j]
        url == CommentsUrlOf(b.pr)
    IN /\ (response.cycle = c /\ response.kind = "pulls"
             /\ b.pr.html_url # "" /\ b.pr.repository_url # "")
            => /\ b.pc = "reviews"
               /\ Get(c, b.pr.html_url \o "/reviews") \in requests
       /\ (JustHandled(c, j, "reviews") /\ response.status = OK
             /\ \E i \in 1..Len(response.data) :
                  ApprovedAfter(response.data[i], fiveMinutesAgo[c]))
            => /\ b.pc = "comments"
               /\ Get(c, url) \in requests
       /\ (JustHandled(c, j, "comments") /\ response.status = OK
             /\ response.data = << >>)
            => /\ b.pc = "post"
               /\ \E m \in 1..8 :
                    { q \in requests : q.cycle = c /\ q.method = "POST" /\ q.url = url }
                      = { Post(c, url, "![Meme](" \o memeUrls[m] \o ")") }
       /\ (JustHandled(c, j, "post") /\ response.status = OK)
            => /\ b.outcome = "posted"
               /\ Cardinality({ p \in posts : p.cycle = c /\ p.url = url }) = 1
               /\ \E m \in 1..8 :
                    comments[url][Len(comments[url])].body
                      = "![Meme](" \o memeUrls[m] \o ")"

\* C8 witness: PR #42 of ab/x, approved by the user one minute before the
\* cycle's time, with no comments, has its POST in flight.
C8_Witness ==
  \E c \in Cycles : \E j \in Callbacks(c) :
    /\ branch[c][j].pr.number = 42
    /\ branch[c][j].pc = "post"
    /\ branch[c][j].reviews
         = << Review("APPROVED", username, fiveMinutesAgo[c] + (4 * 60)) >>
    /\ comments[CommentsUrlOf(branch[c][j].pr)] = << >>

\* C9: no entry point ever rejects, whichever requests fail.
C9_NeverRejects == \A c \in Cycles : pc[c] # "rejected"

\* What a rejected cycle has sent: the search and pulls requests only.
OnlyTrackAndFetch(c) ==
  \A q \in requests :
    q.cycle = c
      => /\ q.method = "GET"
         /\ q.url = SearchUrl \/ \E repo \in RepoNames : q.url = PullsUrl(repo)

C10_Aborted ==
  \A c \in Cycles :
    /\ (response.cycle = c /\ response.kind \in { "search", "pulls" }
          /\ response.status # OK)
         => pc[c] = "rejected"
    /\ pc[c] = "rejected"
         => /\ branch[c] = << >>
            /\ OnlyTrackAndFetch(c)
            /\ { p \in posts : p.cycle = c } = {}

C10_FailedSearchKeepsSet ==
  \A c \in Cycles :
    (pc[c] = "track" /\ pc'[c] = "rejected") => approvedRepos' = approvedRepos

\* C10: a failed search or a failed pulls listing rejects the cycle, which
\* keeps nothing of the listings that did answer and sends no reviews, events
\* or comments request and no POST; a failed search leaves the repository set
\* as it was.
C10_AbortCycle == []C10_Aborted /\ [][C10_FailedSearchKeepsSet]_vars

\* C10 witness: a cycle rejected by one failed listing after another listing
\* had answered with a pull request.
C10_Witness ==
  \E c \in Cycles :
    /\ pc[c] = "rejected"
    /\ response.kind = "pulls"
    /\ \E i \in 1..Len(pulls[c]) : pulls[c][i].done /\ pulls[c][i].data # << >>

\* The requests of cycle c that name the pull request.
RequestsFor(c, pr) ==
  { q \in requests :
      /\ q.cycle = c
      /\ q.url \in { ReviewsUrl(pr.html_url),
                     EventsUrl(RepoFullName(pr), pr.number), CommentsUrlOf(pr) } }
PostsFor(c, pr) == { p \in posts : p.cycle = c /\ p.url = CommentsUrlOf(pr) }
PerPrKinds == { "reviews", "events", "comments", "post" }

\* A step that handles an answer for callback j, a failure or a record that
\* makes the code throw included, leaves every other callback of the cycle,
\* the requests sent for its pull request and its posts as they were, and
\* does not reject the cycle.
C11_StepIsolated ==
  \A c \in Cycles : \A j \in Callbacks(c) :
    (response'.cycle = c /\ response'.branch = j /\ response'.kind \in PerPrKinds)
      => /\ pc[c] = "prs" /\ pc'[c] \in { "prs", "done" }
         /\ \A q \in Callbacks(c) \ { j } :
              /\ branch'[c][q] = branch[c][q]
              /\ RequestsFor(c, branch[c][q].pr)' = RequestsFor(c, branch[c][q].pr)
              /\ PostsFor(c, branch[c][q].pr)' = PostsFor(c, branch[c][q].pr)

\* The per-PR stage is left, and then as completed, exactly when every
\* callback has returned.
C11_Completes ==
  \A c \in Cycles :
    /\ pc[c] = "prs" => ~AllSettled(branch[c])
    /\ pc[c] = "done" => AllSettled(branch[c])
    /\ branch[c] # << >> => pc[c] \in { "prs", "done" }

\* C11: per-PR isolation.  For two pull requests of one cycle, a failed
\* request, a failed POST, an incomplete entry or an exception thrown while
\* one is processed changes neither the requests sent for the other nor
\* whether it gets a POST, and the cycle completes once every callback has
\* returned.
C11_PerPrIsolation == []C11_Completes /\ [][C11_StepIsolated]_vars

\* C11 witness: the cycle completed with one callback ended by an exception
\* and its sibling's comment posted.
C11_Witness ==
  \E c \in Cycles : \E j, q \in Callbacks(c) :
    /\ pc[c] = "done"
    /\ branch[c][j].outcome = "error"
    /\ branch[c][q].outcome = "posted"

PostRequests(url) == { q \in requests : q.method = "POST" /\ q.url = url }
FailedPosts(url) == { p \in posts : p.url = url /\ ~p.ok }

\* C12 as stated: once a POST for a pull request has failed, no further POST
\* for it is sent, in the same cycle or in a later one.
C12_NeverPostedAgain ==
  [][\A url \in CommentUrls :
       FailedPosts(url) # {} => PostRequests(url)' = PostRequests(url)]_vars

\* Within the cycle whose POST failed, no further POST for the pull request.
C12_NoFurtherPostInCycle ==
  \A url \in CommentUrls : \A p \in FailedPosts(url) :
    { q \in PostRequests(url) : q.cycle = p.cycle }'
      = { q \in PostRequests(url) : q.cycle = p.cycle }

\* The failure is swallowed by addMemeComment: the callback returns normally,
\* not through the per-PR handler, the cycle is not rejected, no comment is
\* added; a cycle sends at most one POST per pull request.
C12_Swallowed ==
  /\ \A c \in Cycles : \A j \in Callbacks(c) :
       (JustHandled(c, j, "post") /\ response.status # OK)
         => /\ branch[c][j].pc = "done"
            /\ branch[c][j].outcome = "post failed"
            /\ pc[c] \in { "prs", "done" }
  /\ \A url \in CommentUrls :
       /\ \A p \in FailedPosts(url) :
            /\ branch[p.cycle][p.branch].outcome = "post failed"
            /\ \A k \in 1..Len(comments[url]) : comments[url][k].body # p.body
                 \/ \E ok \in OkPosts(url) : ok.body = p.body
       /\ \A c \in Cycles :
            Cardinality({ q \in PostRequests(url) : q.cycle = c }) <= 1

\* C12, amended: a failed POST is swallowed by addMemeComment and is not
\* retried by its cycle, which sends at most one POST per pull request; a
\* later cycle does not know of the failure and may send a POST for the same
\* pull request again.
C12_NoRetryInCycle == []C12_Swallowed /\ [][C12_NoFurtherPostInCycle]_vars

\* C12 witness: the POST of one cycle failed, and a cycle begun after the
\* failure has sent a POST for the same pull request.
C12_Witness ==
  \E url \in CommentUrls : \E p \in FailedPosts(url) : \E q \in PostRequests(url) :
    /\ q.cycle \in p.before
    /\ pc[p.cycle] = "done"
    /\ branch[p.cycle][p.branch].outcome = "post failed"

\* C13: a listed pull request whose html_url or repository_url is missing is
\* skipped at the guard: its callback has returned when the per-PR stage
\* starts, no reviews, events or comments request and no POST is ever sent
\* for it, and the complete pull requests listed with it have their reviews
\* requested as usual.
C13_IncompleteSkipped ==
  \A c \in Cycles : \A j \in Callbacks(c) :
    LET pr == branch[c][j].pr
    IN /\ (pr.html_url = "" \/ pr.repository_url = "")
            => /\ branch[c][j] = Finished(pr, "skipped")
               /\ Get(c, pr.html_url \o "/reviews") \notin requests
               /\ \A q \in requests :
                    (q.cycle = c /\ Includes(q.url, "/issues/"))
                      => \E k \in Callbacks(c) \ { j } :
                           /\ branch[c][k].outcome # "skipped"
                           /\ Includes(q.url, "/" \o RepoFullName(branch[c][k].pr)
                                                 \o "/issues/")
               /\ PostsFor(c, pr) = {}
       /\ (pr.html_url # "" /\ pr.repository_url # "")
            => /\ branch[c][j].outcome # "skipped"
               /\ Get(c, pr.html_url \o "/reviews") \in requests

\* C13 witness: an entry without html_url was skipped and the pull request
\* listed with it went on to its POST.
C13_Witness ==
  \E c \in Cycles : \E j, k \in Callbacks(c) :
    /\ branch[c][j].pr.html_url = ""
    /\ branch[c][j].outcome = "skipped"
    /\ branch[c][k].outcome = "posted"

PullsRequests(c) ==
  { q \in requests : q.cycle = c /\ Includes(q.url, "/pulls?") }

\* C14: getPullRequestsForRepos sends one listing request per repository of
\* its input, all of them before any answer is awaited; when all have
\* answered, whichever came last, the pull requests processed are the
\* listings concatenated in the order of the input.
C14_ConcatenatedInInputOrder ==
  \A c \in Cycles :
    /\ pc[c] = "fetch"
         => /\ PullsRequests(c)
                 = { Get(c, PullsUrl(allRepos[c][i])) : i \in 1..Len(allRepos[c]) }
            /\ Cardinality(PullsRequests(c)) = Len(allRepos[c])
            /\ Len(pulls[c]) = Len(allRepos[c])
    /\ (JustHandled(c, 0, "search") /\ pc[c] = "fetch")
         => \A i \in 1..Len(pulls[c]) : ~pulls[c][i].done
    /\ (response.cycle = c /\ response.kind = "pulls" /\ pc[c] \in { "prs", "done" })
         => /\ \A i \in 1..Len(pulls[c]) :
                 /\ pulls[c][i].done
                 /\ pulls[c][i].data \in PullsOf(allRepos[c][i])
            /\ Len(branch[c])
                 = Cardinality({ i \in 1..Len(pulls[c]) : pulls[c][i].data # << >> })
            /\ \A j \in Callbacks(c) :
                 LET filled == { i \in 1..Len(pulls[c]) : pulls[c][i].data # << >> }
                     i == CHOOSE n \in filled :
                            Cardinality({ m \in filled : m < n }) = j - 1
                 IN branch[c][j].pr = pulls[c][i].data[1]

\* C14 witness: two repositories listed one pull request each, the listing of
\* the first answered last, and its pull request is processed first.
C14_Witness ==
  \E c \in Cycles :
    /\ JustHandled(c, 1, "pulls")
    /\ Len(branch[c]) = 2
    /\ branch[c][1].pr = response.data[1]
    /\ branch[c][2].pr = pulls[c][2].data[1]
    /\ branch[c][1].pr # branch[c][2].pr

\* A cycle is completed only with every callback returned: one callback still
\* awaiting an answer keeps the cycle in its per-PR stage.
C15_WaitsForAll ==
  \A c \in Cycles : \A j \in Callbacks(c) :
    branch[c][j].pc # "done" => pc[c] = "prs"

\* Every cycle begun ends, completed or rejected.
C15_Ends ==
  \A c \in Cycles : (pc[c] # "idle") ~> (pc[c] \in { "done", "rejected" })

\* C15: fan-in.  The cycle completes only when every per-PR callback has
\* returned, so a request that is never answered keeps it from completing;
\* on a host that answers every request, with a success or an error, every
\* cycle begun eventually completes or is rejected.
C15_FanIn == []C15_WaitsForAll /\ C15_Ends

\* C15 witness: a cycle held in its per-PR stage by the one callback whose
\* POST is unanswered, its sibling having returned.
C15_Witness ==
  \E c \in Cycles : \E j, k \in Callbacks(c) :
    /\ pc[c] = "prs"
    /\ branch[c][j].pc = "post"
    /\ branch[c][k].pc = "done"

\* C16: whatever the reviews request answers, the callback neither ends in
\* the per-PR handler nor rejects the cycle; a 404 and any other failure give
\* the empty list, as a missing URL would, and leave the callback exactly
\* where a genuinely empty list leaves it: awaiting the events.  The events
\* are requested iff the list obtained is empty, and never before the
\* reviews request has answered.
C16_ReviewFailuresFallBack ==
  /\ \A a \in Api.reviews : getPullRequestReviews("", a) = << >>
  /\ \A c \in Cycles : \A j \in Callbacks(c) :
       LET b == branch[c][j]
           events == Get(c, EventsUrl(RepoFullName(b.pr), b.pr.number))
       IN /\ JustHandled(c, j, "reviews")
               => LET obtained == IF response.status = "200 OK"
                                  THEN response.data ELSE << >>
                  IN /\ b.outcome # "error"
                     /\ pc[c] # "rejected"
                     /\ obtained = << >> <=> b.pc = "events"
                     /\ obtained = << >> <=> events \in requests
                     /\ response.status # "200 OK"
                          => b = Branch(b.pr, "events", << >>, "", "")
          /\ b.pc = "reviews" => events \notin requests

\* C16 witness: the reviews request failed with a 500 and the callback awaits
\* the events.
C16_Witness ==
  \E c \in Cycles : \E j \in Callbacks(c) :
    /\ JustHandled(c, j, "reviews")
    /\ response.status = "500 Internal Server Error"
    /\ branch[c][j].pc = "events"

\* The orders in which the API may list the same review records.
PermutationsOf(list) ==
  { [i \in 1..Len(list) |-> list[p[i]]] : p \in Permutations(1..Len(list)) }

\* C17: the outcome for a pull request does not depend on the order of its
\* review records: the callback goes on to the comments, and so to a POST or
\* not, exactly when reviews.find returns a record on any, hence on every,
\* permutation of the list it was given.
C17_OrderIndependent ==
  \A c \in Cycles : \A j \in Callbacks(c) :
    (JustHandled(c, j, "reviews") /\ response.status = "200 OK"
       /\ response.data # << >>)
      => \A other \in PermutationsOf(response.data) :
           FindApproved(other, fiveMinutesAgo[c]) # 0
             <=> branch[c][j].pc = "comments"

\* C18: the gate recognises the service's own posts.  Every body it posts
\* holds a catalog URL, getRandomMeme returning an element of the catalog;
\* and once a POST for a pull request has succeeded, a cycle begun after it
\* whose comments request for that pull request succeeds finds the meme
\* already posted and sends no POST for it.
C18_GateRecognisesOwnPosts ==
  /\ \A r \in Randoms : \E m \in 1..8 : getRandomMeme(r) = memeUrls[m]
  /\ \A q \in requests :
       q.method = "POST" => \E m \in 1..8 : Includes(q.body, memeUrls[m])
  /\ \A url \in CommentUrls : \A p \in OkPosts(url) :
       \A c \in p.before : \A j \in Callbacks(c) :
         (JustHandled(c, j, "comments") /\ response.status = "200 OK"
            /\ CommentsUrlOf(branch[c][j].pr) = url)
           => /\ branch[c][j].outcome = "already posted"
              /\ { q \in PostRequests(url) : q.cycle = c } = {}

\* C18 witness: a cycle begun after the last catalog image was posted got
\* the comments and returned without a POST.
C18_Witness ==
  \E url \in CommentUrls : \E p \in OkPosts(url) :
    \E c \in p.before : \E j \in Callbacks(c) :
      /\ p.body = "![Meme](" \o memeUrls[8] \o ")"
      /\ JustHandled(c, j, "comments")
      /\ CommentsUrlOf(branch[c][j].pr) = url
      /\ branch[c][j].outcome = "already posted"

====
